---- MODULE Spec2Model ----
(***************************************************************************)
(* Model of the job queue / status tracking server of                      *)
(* src/generation_testing/direct_api_server.py (FastAPI, one asyncio event *)
(* loop): the job table `jobs`, the router handlers /send, /status,        *)
(* /generate and /health, and the background executor process_job,         *)
(* statement by statement.                                                 *)
(*                                                                         *)
(* Scheduling.  Every handler and every background task is a coroutine of  *)
(* one event loop, so a coroutine runs without interruption from one await *)
(* that suspends to the next.  `loop` names the task that holds the event  *)
(* loop (0 when the loop is idle and free to run any ready coroutine).     *)
(* The only suspending await of the program is run_in_threadpool (line     *)
(* 109), during which the backend call runs on a worker thread.            *)
(*                                                                         *)
(* Texts.  A base64 text is a sequence of one-character strings; bytes are *)
(* sequences of 0..255.  Messages are strings.                             *)
(***************************************************************************)
EXTENDS Integers, Sequences, FiniteSets, TLC

\* ------------------------------------------------------------------ bounds

\* Number of POST requests (/send and /generate together) the model follows.
MaxRequests == 2

\* Optional values: None of Python (an absent dict key read by .get(), an
\* unset Optional field) is the empty sequence, a present value v is <<v>>.
None == << >>

Some(v) == << v >>

\* ------------------------------------------------------------------ base64

\* The base64 alphabet of RFC 4648 (binascii's table_b2a_base64).
B64Alphabet ==
    << "A","B","C","D","E","F","G","H","I","J","K","L","M","N","O","P",
       "Q","R","S","T","U","V","W","X","Y","Z","a","b","c","d","e","f",
       "g","h","i","j","k","l","m","n","o","p","q","r","s","t","u","v",
       "w","x","y","z","0","1","2","3","4","5","6","7","8","9","+","/" >>

B64Pad == "="

\* Value 0..63 of an alphabet character (binascii's table_a2b_base64).
B64Value(c) == (CHOOSE i \in 1..Len(B64Alphabet) : B64Alphabet[i] = c) - 1

IsB64Char(c) == \E i \in 1..Len(B64Alphabet) : B64Alphabet[i] = c

B64Char(v) == B64Alphabet[v + 1]

\* An encoder that leaves the padding out (as the urlsafe encoders of some
\* libraries do): a last group of one or two bytes gives two or three
\* characters.
RECURSIVE b64encode_unpadded(_)
b64encode_unpadded(data) ==
    IF Len(data) = 0 THEN << >>
    ELSE IF Len(data) = 1 THEN
        << B64Char(data[1] \div 4), B64Char((data[1] % 4) * 16) >>
    ELSE IF Len(data) = 2 THEN
        << B64Char(data[1] \div 4),
           B64Char((data[1] % 4) * 16 + data[2] \div 16),
           B64Char((data[2] % 16) * 4) >>
    ELSE
        << B64Char(data[1] \div 4),
           B64Char((data[1] % 4) * 16 + data[2] \div 16),
           B64Char((data[2] % 16) * 4 + data[3] \div 64),
           B64Char(data[3] % 64) >>
        \o b64encode_unpadded(SubSeq(data, 4, Len(data)))

\* base64.b64encode(data).decode('utf-8'): three bytes give four characters,
\* a last group of one or two bytes is padded with "=".
RECURSIVE b64encode(_)
b64encode(data) ==
    IF Len(data) = 0 THEN << >>
    ELSE IF Len(data) = 1 THEN
        << B64Char(data[1] \div 4), B64Char((data[1] % 4) * 16), B64Pad, B64Pad >>
    ELSE IF Len(data) = 2 THEN
        << B64Char(data[1] \div 4),
           B64Char((data[1] % 4) * 16 + data[2] \div 16),
           B64Char((data[2] % 16) * 4), B64Pad >>
    ELSE
        << B64Char(data[1] \div 4),
           B64Char((data[1] % 4) * 16 + data[2] \div 16),
           B64Char((data[2] % 16) * 4 + data[3] \div 64),
           B64Char(data[3] % 64) >>
        \o b64encode(SubSeq(data, 4, Len(data)))

\* binascii.a2b_base64 in its default (non-strict) mode, as base64.b64decode
\* calls it: characters outside the alphabet are skipped, a pad that completes
\* a quad ends the data, and leftover characters of an incomplete quad raise
\* binascii.Error.  The result is [ok, bytes, error].
RECURSIVE a2b_base64(_, _, _, _, _, _)
a2b_base64(s, i, quad_pos, leftchar, pads, out) ==
    IF i > Len(s) THEN
        IF quad_pos = 0 THEN [ok |-> TRUE, bytes |-> out, error |-> ""]
        ELSE IF quad_pos = 1 THEN
            [ok |-> FALSE, bytes |-> << >>,
             error |-> "Invalid base64-encoded string: number of data characters cannot be 1 more than a multiple of 4"]
        ELSE [ok |-> FALSE, bytes |-> << >>, error |-> "Incorrect padding"]
    ELSE IF s[i] = B64Pad THEN
        IF quad_pos >= 2 /\ quad_pos + pads + 1 >= 4
        THEN [ok |-> TRUE, bytes |-> out, error |-> ""]
        ELSE a2b_base64(s, i + 1, quad_pos, leftchar,
                        IF quad_pos >= 2 THEN pads + 1 ELSE pads, out)
    ELSE IF ~IsB64Char(s[i]) THEN
        a2b_base64(s, i + 1, quad_pos, leftchar, pads, out)
    ELSE
        LET v == B64Value(s[i]) IN
        IF quad_pos = 0 THEN a2b_base64(s, i + 1, 1, v, 0, out)
        ELSE IF quad_pos = 1 THEN
            a2b_base64(s, i + 1, 2, v % 16, 0,
                       Append(out, leftchar * 4 + v \div 16))
        ELSE IF quad_pos = 2 THEN
            a2b_base64(s, i + 1, 3, v % 4, 0,
                       Append(out, leftchar * 16 + v \div 4))
        ELSE
            a2b_base64(s, i + 1, 0, 0, 0, Append(out, leftchar * 64 + v))

b64decode(s) == a2b_base64(s, 1, 0, 0, 0, << >>)

\* ------------------------------------------------------------------ inputs

\* request.image payloads: "TQ==" decodes to one byte, "TWE" has an
\* incomplete last quad (binascii.Error: Incorrect padding).
ImageDecodable == << "T", "Q", "=", "=" >>

ImageUndecodable == << "T", "W", "E" >>

\* GenerateRequest with its defaults (lines 128-137); guidance_scale is a
\* float in the source and a number here.
DefaultRequest(image) ==
    [image |-> image, caption |-> "", seed |-> None,
     octree_resolution |-> 128, num_inference_steps |-> 20,
     guidance_scale |-> 5, mc_algo |-> "mc", texture |-> FALSE,
     type |-> "glb"]

\* A request that sets every optional parameter.
CustomRequest ==
    [image |-> ImageDecodable, caption |-> "a chair", seed |-> Some(7),
     octree_resolution |-> 256, num_inference_steps |-> 30,
     guidance_scale |-> 7, mc_algo |-> "dmc", texture |-> TRUE,
     type |-> "obj"]

Requests ==
    { DefaultRequest(ImageDecodable), DefaultRequest(ImageUndecodable),
      CustomRequest }

\* What self.client.post may return (bytes): an empty body and bodies of
\* one, two and three bytes, so that each padding of base64 occurs (the
\* three bytes are the first of a PNG file) ...
GeneratorOutputs == { << >>, << 77 >>, << 255, 0 >>, << 137, 80, 78 >> }

\* ... and str(e) of what it may raise (network, authentication, quota,
\* backend error); an exception without arguments has the empty text.
GeneratorFailures == { "503 Service Unavailable", "" }

\* The values os.environ.get("HUGGINGFACE_API_KEY") may give at start.
ApiKeys == { None, Some(""), Some("hf_token") }

\* The identifiers uuid4 draws from; one more than the requests followed, so
\* an identifier no /send has issued always exists.
UuidSpace == 1..(MaxRequests + 1)

\* ------------------------------------------------------------------ state

VARIABLES
    HUGGINGFACE_API_KEY,  \* the credential read at process start (line 56)
    jobs,                 \* the in-memory job table (line 71): job_id -> record
    tasks,                \* the background tasks added by /send, in order;
                          \* each holds process_job's arguments, its position
                          \* and its local variables
    gens,                 \* the /generate calls, in order, likewise
    loop,                 \* the task running on the event loop, 0 when idle
    issued,               \* every identifier uuid4 has returned
    resp                  \* the HTTP response the step just taken produced
                          \* (NoResponse after a step that answers nothing)

vars == << HUGGINGFACE_API_KEY, jobs, tasks, gens, loop, issued, resp >>

\* bool(x) / `not x` of an Optional[str]: None and "" are falsy.
Truthy(x) == x # None /\ x # Some("")

\* self.api_key = api_key or HUGGINGFACE_API_KEY (line 77), with api_key=None.
api_key == HUGGINGFACE_API_KEY

NoResponse == [op |-> "none"]

Init ==
    /\ HUGGINGFACE_API_KEY \in ApiKeys
    /\ jobs = << >>
    /\ tasks = << >>
    /\ gens = << >>
    /\ loop = 0
    /\ issued = {}
    /\ resp = NoResponse

\* ------------------------------------------------------------------ helpers

\* An identifier source that may repeat itself (a draw from a small space).
uuid4_repeating == UuidSpace

\* str(uuid.uuid4()) (line 184): the identifiers a call may return.  uuid4
\* is taken at its contract, a universally unique identifier: a value no
\* earlier call returned (the source makes no check of its own).  The
\* program only compares identifiers and formats them into texts, so states
\* that differ by a renaming of identifiers behave alike, and the model takes
\* the least unissued one.
uuid4 ==
    LET fresh == UuidSpace \ issued
    IN  { id \in fresh : \A other \in fresh : id <= other }

\* time.time() (lines 192 and 248).  No statement of the program reads a
\* stored timestamp, so the reading is not tracked: every timestamp is the
\* same token.
time_time == "time"

\* The dict stored by send_job (lines 188-194); model_base64, completed_at
\* and error are keys the record does not have yet.
QueuedRecord(request) ==
    [status |-> "queued", progress |-> 0,
     message |-> "Job queued for processing",
     created_at |-> time_time, request |-> request,
     model_base64 |-> None, completed_at |-> None, error |-> None]

\* process_job(job_id, request) as added by background_tasks.add_task
\* (line 197): not started, no local variable bound.
ScheduledTask(job_id, request) ==
    [job_id |-> job_id, request |-> request, pc |-> "scheduled",
     image_data |-> None, post |-> None, response |-> None,
     model_data |-> None, model_base64 |-> None, e |-> None,
     error_msg |-> None]

\* jobs[job_id] = record (line 188): a dict store inserts or overwrites.
DictStore(table, key, value) ==
    [k \in DOMAIN table \cup {key} |-> IF k = key THEN value ELSE table[k]]

\* The dict `parameters` and the body of the post (lines 94-111).
PostData(image_data, caption, seed, octree_resolution, num_inference_steps, guidance_scale, mc_algo, texture, output_type) ==
    [image_data |-> image_data,
     parameters |->
        [caption |-> caption, steps |-> num_inference_steps,
         guidance_scale |-> guidance_scale,
         octree_resolution |-> octree_resolution,
         check_box_rembg |-> TRUE, num_chunks |-> 4000,
         randomize_seed |-> (seed = None), seed |-> seed],
     output_type |-> output_type]

\* The arguments generate_model and process_job pass (lines 157-167, 225-235).
CallOf(image_data, request) ==
    PostData(image_data, request.caption, request.seed,
             request.octree_resolution, request.num_inference_steps,
             request.guidance_scale, request.mc_algo, request.texture,
             request.type)

\* ------------------------------------------------------------------ /send

\* The body send_job returns (line 200).
SendBody(job_id) == [uid |-> job_id, status |-> "queued"]

\* send_job calling process_job itself (line 197 as `await process_job(...)`
\* up to the executor's first suspension) before it answers.
send_job_inline(request) ==
    /\ loop = 0
    /\ Len(tasks) + Len(gens) < MaxRequests
    /\ \E job_id \in uuid4 :
        /\ issued' = issued \cup {job_id}
        /\ jobs' = DictStore(jobs, job_id,
                     [QueuedRecord(request) EXCEPT !.status = "processing"])
        /\ tasks' = Append(tasks, [ScheduledTask(job_id, request)
                                      EXCEPT !.pc = "215"])
        /\ loop' = Len(tasks) + 1
        /\ resp' = [op |-> "send", code |-> 200, body |-> SendBody(job_id)]
    /\ UNCHANGED << HUGGINGFACE_API_KEY, gens >>

\* send_job checking the image itself: a request whose image does not decode
\* is refused with 500 (the except branch of lines 202-205) and no job made.
send_job_validating(request) ==
    /\ loop = 0
    /\ Len(tasks) + Len(gens) < MaxRequests
    /\ IF b64decode(request.image).ok
       THEN \E job_id \in uuid4 :
            /\ issued' = issued \cup {job_id}
            /\ jobs' = DictStore(jobs, job_id, QueuedRecord(request))
            /\ tasks' = Append(tasks, ScheduledTask(job_id, request))
            /\ resp' = [op |-> "send", code |-> 200, body |-> SendBody(job_id)]
       ELSE /\ resp' = [op |-> "send", code |-> 500,
                        body |-> [detail |-> b64decode(request.image).error]]
            /\ UNCHANGED << issued, jobs, tasks >>
    /\ UNCHANGED << HUGGINGFACE_API_KEY, gens, loop >>

\* POST /send (lines 179-200).  The handler has no await: it runs in one
\* piece.  Starlette runs the background task after the response was sent, so
\* the task is only scheduled here.
send_job(request) ==
    /\ loop = 0
    /\ Len(tasks) + Len(gens) < MaxRequests
    /\ \E job_id \in uuid4 :
        /\ issued' = issued \cup {job_id}
        /\ jobs' = DictStore(jobs, job_id, QueuedRecord(request))
        /\ tasks' = Append(tasks, ScheduledTask(job_id, request))
        /\ resp' = [op |-> "send", code |-> 200, body |-> SendBody(job_id)]
    /\ UNCHANGED << HUGGINGFACE_API_KEY, gens >>
    /\ UNCHANGED loop

\* ------------------------------------------------------------------ process_job

\* The store going to a state shared by all jobs (one status, one progress
\* for the server) instead of the record of job_id.
Store_all(t, at, field, value, to) ==
    /\ loop = t
    /\ tasks[t].pc = at
    /\ jobs' = [id \in DOMAIN jobs |-> [jobs[id] EXCEPT ![field] = value]]
    /\ tasks' = [tasks EXCEPT ![t].pc = to]
    /\ UNCHANGED << HUGGINGFACE_API_KEY, gens, loop, issued >>
    /\ resp' = NoResponse

\* jobs[job_id][field] = value by the task that holds the event loop.
Store(t, at, field, value, to) ==
    /\ loop = t
    /\ tasks[t].pc = at
    /\ jobs' = [jobs EXCEPT ![tasks[t].job_id][field] = value]
    /\ tasks' = [tasks EXCEPT ![t].pc = to]
    /\ UNCHANGED << HUGGINGFACE_API_KEY, gens, loop, issued >>
    /\ resp' = NoResponse

\* process_job without line 214: the task starts and leaves the status alone.
process_job_214_skipped(t) ==
    /\ loop = 0
    /\ tasks[t].pc = "scheduled"
    /\ loop' = t
    /\ tasks' = [tasks EXCEPT ![t].pc = "215"]
    /\ resp' = NoResponse
    /\ UNCHANGED << HUGGINGFACE_API_KEY, jobs, gens, issued >>

\* Line 214: the event loop starts the background task.
process_job_214(t) ==
    /\ loop = 0
    /\ tasks[t].pc = "scheduled"
    /\ loop' = t
    /\ jobs' = [jobs EXCEPT ![tasks[t].job_id].status = "processing"]
    /\ tasks' = [tasks EXCEPT ![t].pc = "215"]
    /\ UNCHANGED << HUGGINGFACE_API_KEY, gens, issued >>
    /\ resp' = NoResponse

process_job_215(t) == Store(t, "215", "progress", 10, "216")

process_job_216(t) == Store(t, "216", "message", "Starting model generation", "219")

\* Line 219 swallowing the decode error: the executor goes on with whatever
\* bytes the decoder had produced.
process_job_219_lenient(t) ==
    /\ loop = t
    /\ tasks[t].pc = "219"
    /\ tasks' = [tasks EXCEPT ![t].pc = "222",
                    ![t].image_data = Some(b64decode(tasks[t].request.image).bytes)]
    /\ UNCHANGED << HUGGINGFACE_API_KEY, jobs, gens, loop, issued >>
    /\ resp' = NoResponse

\* Line 219 outside the try: binascii.Error ends the task, the except branch
\* of line 252 does not run and the record stays as it was.
process_job_219_uncaught(t) ==
    /\ loop = t
    /\ tasks[t].pc = "219"
    /\ LET d == b64decode(tasks[t].request.image) IN
        IF d.ok
        THEN /\ tasks' = [tasks EXCEPT ![t].pc = "222",
                                       ![t].image_data = Some(d.bytes)]
             /\ UNCHANGED loop
        ELSE /\ tasks' = [tasks EXCEPT ![t].pc = "done", ![t].e = Some(d.error)]
             /\ loop' = 0
    /\ UNCHANGED << HUGGINGFACE_API_KEY, jobs, gens, issued >>
    /\ resp' = NoResponse

\* Line 219: image_data = base64.b64decode(request.image), or binascii.Error
\* into the except branch.
process_job_219(t) ==
    /\ loop = t
    /\ tasks[t].pc = "219"
    /\ LET d == b64decode(tasks[t].request.image) IN
        tasks' = IF d.ok
                 THEN [tasks EXCEPT ![t].pc = "222",
                                    ![t].image_data = Some(d.bytes)]
                 ELSE [tasks EXCEPT ![t].pc = "253", ![t].e = Some(d.error)]
    /\ UNCHANGED << HUGGINGFACE_API_KEY, jobs, gens, loop, issued >>
    /\ resp' = NoResponse

process_job_222(t) == Store(t, "222", "progress", 30, "223")

\* Line 223 storing the final status before the backend was called.
process_job_223_early(t) == Store(t, "223", "status", "completed", "225")

process_job_223(t) == Store(t, "223", "message", "Calling Hunyuan3D API", "225")

\* generate_3d_model without the test of lines 87-88: the post is made
\* whatever the credential.
process_job_225_unchecked(t) ==
    /\ loop = t
    /\ tasks[t].pc = "225"
    /\ tasks' = [tasks EXCEPT ![t].pc = "109",
                    ![t].post = Some(CallOf(tasks[t].image_data[1],
                                            tasks[t].request))]
    /\ loop' = 0
    /\ UNCHANGED << HUGGINGFACE_API_KEY, jobs, gens, issued >>
    /\ resp' = NoResponse

\* Lines 225-235 and 87-114: the call of generate_3d_model.  Without a
\* credential it raises ValueError at line 88, outside its try, before any
\* await; otherwise it posts on a worker thread and the task leaves the loop.
process_job_225(t) ==
    /\ loop = t
    /\ tasks[t].pc = "225"
    /\ IF ~Truthy(api_key)
       THEN /\ tasks' = [tasks EXCEPT ![t].pc = "253",
                            ![t].e = Some("HUGGINGFACE_API_KEY is not set")]
            /\ UNCHANGED loop
       ELSE /\ tasks' = [tasks EXCEPT ![t].pc = "109",
                            ![t].post = Some(CallOf(tasks[t].image_data[1],
                                                    tasks[t].request))]
            /\ loop' = 0
    /\ UNCHANGED << HUGGINGFACE_API_KEY, jobs, gens, issued >>
    /\ resp' = NoResponse

\* self.client.post on the worker thread (lines 110-113) returns bytes ...
client_post_returns(t) ==
    /\ tasks[t].pc = "109"
    /\ \E out \in GeneratorOutputs :
        tasks' = [tasks EXCEPT ![t].pc = "116", ![t].response = Some(out)]
    /\ UNCHANGED << HUGGINGFACE_API_KEY, jobs, gens, loop, issued >>
    /\ resp' = NoResponse

\* ... or raises.
client_post_raises(t) ==
    /\ tasks[t].pc = "109"
    /\ \E err \in GeneratorFailures :
        tasks' = [tasks EXCEPT ![t].pc = "119", ![t].e = Some(err)]
    /\ UNCHANGED << HUGGINGFACE_API_KEY, jobs, gens, loop, issued >>
    /\ resp' = NoResponse

\* The task resuming with whatever response the client holds: the response
\* kept in one attribute of the shared hunyuan3d_client instead of the
\* local variable of line 109, so a resuming task may read another call's.
process_job_116_shared(t) ==
    /\ loop = 0
    /\ tasks[t].pc = "116"
    /\ loop' = t
    /\ \E u \in DOMAIN tasks :
        /\ tasks[u].response # None
        /\ tasks' = [tasks EXCEPT ![t].pc = "238",
                                  ![t].model_data = tasks[u].response]
    /\ UNCHANGED << HUGGINGFACE_API_KEY, jobs, gens, issued >>
    /\ resp' = NoResponse

\* Lines 116-117 and 225: the task resumes with the response as model_data.
process_job_116(t) ==
    /\ loop = 0
    /\ tasks[t].pc = "116"
    /\ loop' = t
    /\ tasks' = [tasks EXCEPT ![t].pc = "238",
                              ![t].model_data = tasks[t].response]
    /\ UNCHANGED << HUGGINGFACE_API_KEY, jobs, gens, issued >>
    /\ resp' = NoResponse

\* Lines 119-123: the task resumes with the failure, wrapped.
process_job_119(t) ==
    /\ loop = 0
    /\ tasks[t].pc = "119"
    /\ loop' = t
    /\ tasks' = [tasks EXCEPT ![t].pc = "253",
                    ![t].e = Some("Error generating 3D model: " \o tasks[t].e[1])]
    /\ UNCHANGED << HUGGINGFACE_API_KEY, jobs, gens, issued >>
    /\ resp' = NoResponse

\* Line 238 with a mistyped percentage, below the 30 stored before it.
process_job_238_typo(t) == Store(t, "238", "progress", 8, "239")

process_job_238(t) == Store(t, "238", "progress", 80, "239")

process_job_239(t) == Store(t, "239", "message", "Processing model data", "241")

\* Line 241: model_base64 = base64.b64encode(model_data).decode('utf-8').
process_job_241(t) ==
    /\ loop = t
    /\ tasks[t].pc = "241"
    /\ tasks' = [tasks EXCEPT ![t].pc = "244",
                    ![t].model_base64 = Some(b64encode(tasks[t].model_data[1]))]
    /\ UNCHANGED << HUGGINGFACE_API_KEY, jobs, gens, loop, issued >>
    /\ resp' = NoResponse

process_job_244(t) == Store(t, "244", "status", "completed", "245")

\* Line 245 left out: the completed record keeps the progress 80.
process_job_245_skipped(t) == Store(t, "245", "progress", jobs[tasks[t].job_id].progress, "246")

process_job_245(t) == Store(t, "245", "progress", 100, "246")

process_job_246(t) == Store(t, "246", "message", "Model generation completed", "247")

\* Line 247 left out: the completed record gets no model_base64.
process_job_247_skipped(t) ==
    /\ loop = t
    /\ tasks[t].pc = "247"
    /\ tasks' = [tasks EXCEPT ![t].pc = "248"]
    /\ resp' = NoResponse
    /\ UNCHANGED << HUGGINGFACE_API_KEY, jobs, gens, loop, issued >>

process_job_247(t) == Store(t, "247", "model_base64", tasks[t].model_base64, "248")

\* process_job returned.  The task keeps what it did (its post, the response
\* or the exception) as the record of that run.
Returned(task) == [task EXCEPT !.pc = "done"]

\* Line 248 raising (a store after status = "completed" that fails): the
\* except branch then runs on a completed record.
process_job_248_raises(t) ==
    /\ loop = t
    /\ tasks[t].pc = "248"
    /\ tasks' = [tasks EXCEPT ![t].pc = "253", ![t].e = Some("KeyError")]
    /\ resp' = NoResponse
    /\ UNCHANGED << HUGGINGFACE_API_KEY, jobs, gens, loop, issued >>

\* Line 248 left out: process_job returns without the completion time.
process_job_248_unstamped(t) ==
    /\ loop = t
    /\ tasks[t].pc = "248"
    /\ tasks' = [tasks EXCEPT ![t] = Returned(tasks[t])]
    /\ loop' = 0
    /\ UNCHANGED << HUGGINGFACE_API_KEY, jobs, gens, issued >>
    /\ resp' = NoResponse

\* Lines 248-250: the last store, then process_job returns.
process_job_248(t) ==
    /\ loop = t
    /\ tasks[t].pc = "248"
    /\ jobs' = [jobs EXCEPT ![tasks[t].job_id].completed_at = Some(time_time)]
    /\ tasks' = [tasks EXCEPT ![t] = Returned(tasks[t])]
    /\ loop' = 0
    /\ UNCHANGED << HUGGINGFACE_API_KEY, gens, issued >>
    /\ resp' = NoResponse

\* The except branch retrying: after a failure of the backend call the
\* executor goes back to the call instead of marking the job failed.
process_job_253_retry(t) ==
    /\ loop = t
    /\ tasks[t].pc = "253"
    /\ tasks' = IF tasks[t].post # None
                THEN [tasks EXCEPT ![t].pc = "225", ![t].e = None]
                ELSE [tasks EXCEPT ![t].pc = "258",
                        ![t].error_msg =
                            Some("Error processing job " \o ToString(tasks[t].job_id)
                                 \o ": " \o tasks[t].e[1])]
    /\ UNCHANGED << HUGGINGFACE_API_KEY, jobs, gens, loop, issued >>
    /\ resp' = NoResponse

\* Line 253: error_msg = f"Error processing job {job_id}: {str(e)}".
process_job_253(t) ==
    /\ loop = t
    /\ tasks[t].pc = "253"
    /\ tasks' = [tasks EXCEPT ![t].pc = "258",
                    ![t].error_msg =
                        Some("Error processing job " \o ToString(tasks[t].job_id)
                             \o ": " \o tasks[t].e[1])]
    /\ UNCHANGED << HUGGINGFACE_API_KEY, jobs, gens, loop, issued >>
    /\ resp' = NoResponse

\* The failure of one job marking every job of the table failed.
process_job_258_all(t) == Store_all(t, "258", "status", "failed", "259")

process_job_258(t) == Store(t, "258", "status", "failed", "259")

\* Line 259 left out: the failed record keeps the progress it had reached.
process_job_259_kept(t) == Store(t, "259", "progress", jobs[tasks[t].job_id].progress, "260")

process_job_259(t) == Store(t, "259", "progress", 0, "260")

process_job_260(t) == Store(t, "260", "message", "Model generation failed", "261")

\* Line 261: the last store of the except branch, then process_job returns.
process_job_261(t) ==
    /\ loop = t
    /\ tasks[t].pc = "261"
    /\ jobs' = [jobs EXCEPT ![tasks[t].job_id].error = tasks[t].error_msg]
    /\ tasks' = [tasks EXCEPT ![t] = Returned(tasks[t])]
    /\ loop' = 0
    /\ UNCHANGED << HUGGINGFACE_API_KEY, gens, issued >>
    /\ resp' = NoResponse

\* ------------------------------------------------------------------ /status

\* The view with a default text for a record that has no error (as
\* job.get("error", "Unknown error") would give).
JobStatus_default_error(job) ==
    [status |-> job.status, progress |-> job.progress,
     message |-> job.message,
     model_base64 |-> IF job.status = "completed" THEN job.model_base64
                      ELSE None,
     error |-> IF job.error = None THEN Some("Unknown error") ELSE job.error]

\* The JobStatus built at lines 273-279.
JobStatus(job) ==
    [status |-> job.status, progress |-> job.progress,
     message |-> job.message,
     model_base64 |-> IF job.status = "completed" THEN job.model_base64
                      ELSE None,
     error |-> job.error]

\* The lookup answering an unknown identifier with a default view instead
\* of 404 (as jobs.get(job_id, default) would).
StatusResponse_default(job_id) ==
    [op |-> "status", job_id |-> job_id, code |-> 200,
     body |-> IF job_id \in DOMAIN jobs THEN JobStatus(jobs[job_id])
              ELSE [status |-> "queued", progress |-> 0, message |-> "",
                    model_base64 |-> None, error |-> None]]

\* What GET /status/{job_id} answers on the current table (lines 265-279).
StatusResponse(job_id) ==
    IF job_id \notin DOMAIN jobs
    THEN [op |-> "status", job_id |-> job_id, code |-> 404,
          body |-> [detail |-> "Job with ID " \o ToString(job_id) \o " not found"]]
    ELSE [op |-> "status", job_id |-> job_id, code |-> 200,
          body |-> JobStatus(jobs[job_id])]

\* The lookup handing a finished job out once: it answers and drops the
\* record of a completed or failed job (as jobs.pop(job_id) would).
get_job_status_pop(job_id) ==
    /\ loop = 0
    /\ resp' = StatusResponse(job_id)
    /\ jobs' = IF job_id \in DOMAIN jobs /\ jobs[job_id].status \in {"completed", "failed"}
               THEN [k \in DOMAIN jobs \ {job_id} |-> jobs[k]]
               ELSE jobs
    /\ UNCHANGED << HUGGINGFACE_API_KEY, tasks, gens, loop, issued >>

\* The lookup as a plain `def` handler, which Starlette runs on a worker
\* thread: it reads the table whatever the event loop is doing.
get_job_status_threaded(job_id) ==
    /\ resp' = StatusResponse(job_id)
    /\ UNCHANGED << HUGGINGFACE_API_KEY, jobs, tasks, gens, loop, issued >>

\* GET /status/{job_id}: a handler without await, run when the loop is idle.
get_job_status(job_id) ==
    /\ loop = 0
    /\ resp' = StatusResponse(job_id)
    /\ UNCHANGED << HUGGINGFACE_API_KEY, jobs, tasks, gens, loop, issued >>

\* ------------------------------------------------------------------ /health

\* The probe testing only that the variable exists (`is not None`), so that
\* an empty credential counts as configured.
health_check_presence ==
    /\ loop = 0
    /\ resp' = [op |-> "health", code |-> 200,
                body |-> [status |-> "ok",
                          api_key_configured |-> (HUGGINGFACE_API_KEY # None)]]
    /\ UNCHANGED << HUGGINGFACE_API_KEY, jobs, tasks, gens, loop, issued >>

\* GET /health (lines 282-285).
health_check ==
    /\ loop = 0
    /\ resp' = [op |-> "health", code |-> 200,
                body |-> [status |-> "ok",
                          api_key_configured |-> Truthy(HUGGINGFACE_API_KEY)]]
    /\ UNCHANGED << HUGGINGFACE_API_KEY, jobs, tasks, gens, loop, issued >>

\* ------------------------------------------------------------------ /generate

\* A /generate call: its request, its position and what it posted.
GenerateCall(request, pc, post) == [request |-> request, pc |-> pc, post |-> post]

\* raise HTTPException(status_code=500, detail=str(e)) (line 176).
GenerateError(detail) == [op |-> "generate", code |-> 500, body |-> [detail |-> detail]]

\* Response(content=model_data, media_type=...) (line 171).
GenerateResponse(model_data) ==
    [op |-> "generate", code |-> 200, body |-> [content |-> model_data]]

\* /generate keeping a record of each call in the job table, as /send does.
generate_model_tracked(request) ==
    /\ loop = 0
    /\ Len(tasks) + Len(gens) < MaxRequests
    /\ \E job_id \in uuid4 :
        /\ issued' = issued \cup {job_id}
        /\ jobs' = DictStore(jobs, job_id, QueuedRecord(request))
    /\ LET d == b64decode(request.image) IN
        IF ~d.ok
        THEN /\ gens' = Append(gens, GenerateCall(request, "done", None))
             /\ resp' = GenerateError(d.error)
        ELSE IF ~Truthy(api_key)
        THEN /\ gens' = Append(gens, GenerateCall(request, "done", None))
             /\ resp' = GenerateError("HUGGINGFACE_API_KEY is not set")
        ELSE /\ gens' = Append(gens, GenerateCall(request, "109",
                                                  Some(CallOf(d.bytes, request))))
             /\ resp' = NoResponse
    /\ UNCHANGED << HUGGINGFACE_API_KEY, tasks, loop >>

\* POST /generate up to its first suspension (lines 148-167 and 87-114): the
\* image is decoded and generate_3d_model is called; a decode error or a
\* missing credential is answered at once, otherwise the post runs on a worker
\* thread.  The handler never touches `jobs`.
generate_model(request) ==
    /\ loop = 0
    /\ Len(tasks) + Len(gens) < MaxRequests
    /\ LET d == b64decode(request.image) IN
        IF ~d.ok
        THEN /\ gens' = Append(gens, GenerateCall(request, "done", None))
             /\ resp' = GenerateError(d.error)
        ELSE IF ~Truthy(api_key)
        THEN /\ gens' = Append(gens, GenerateCall(request, "done", None))
             /\ resp' = GenerateError("HUGGINGFACE_API_KEY is not set")
        ELSE /\ gens' = Append(gens, GenerateCall(request, "109",
                                                  Some(CallOf(d.bytes, request))))
             /\ resp' = NoResponse
    /\ UNCHANGED << HUGGINGFACE_API_KEY, jobs, tasks, loop, issued >>

\* self.client.post of a /generate call returns on its worker thread ...
generate_post_returns(g) ==
    /\ gens[g].pc = "109"
    /\ \E out \in GeneratorOutputs :
        gens' = [gens EXCEPT ![g] = [request |-> @.request, pc |-> "116",
                                     post |-> @.post, response |-> out]]
    /\ resp' = NoResponse
    /\ UNCHANGED << HUGGINGFACE_API_KEY, jobs, tasks, loop, issued >>

\* ... or raises.
generate_post_raises(g) ==
    /\ gens[g].pc = "109"
    /\ \E err \in GeneratorFailures :
        gens' = [gens EXCEPT ![g] = [request |-> @.request, pc |-> "119",
                                     post |-> @.post, e |-> err]]
    /\ resp' = NoResponse
    /\ UNCHANGED << HUGGINGFACE_API_KEY, jobs, tasks, loop, issued >>

\* Lines 116-117 and 169-171: the handler resumes and returns the artifact.
generate_model_116(g) ==
    /\ loop = 0
    /\ gens[g].pc = "116"
    /\ resp' = GenerateResponse(gens[g].response)
    /\ gens' = [gens EXCEPT ![g] = GenerateCall(@.request, "done", @.post)]
    /\ UNCHANGED << HUGGINGFACE_API_KEY, jobs, tasks, loop, issued >>

\* The handler swallowing the failure: it answers 200 with an empty body.
generate_model_119_empty(g) ==
    /\ loop = 0
    /\ gens[g].pc = "119"
    /\ resp' = GenerateResponse(<< >>)
    /\ gens' = [gens EXCEPT ![g] = GenerateCall(@.request, "done", @.post)]
    /\ UNCHANGED << HUGGINGFACE_API_KEY, jobs, tasks, loop, issued >>

\* Lines 119-123 and 173-176: the handler resumes with the failure, wrapped,
\* and answers 500.
generate_model_119(g) ==
    /\ loop = 0
    /\ gens[g].pc = "119"
    /\ resp' = GenerateError("Error generating 3D model: " \o gens[g].e)
    /\ gens' = [gens EXCEPT ![g] = GenerateCall(@.request, "done", @.post)]
    /\ UNCHANGED << HUGGINGFACE_API_KEY, jobs, tasks, loop, issued >>

\* ------------------------------------------------------------------ next

Next ==
    \/ \E request \in Requests : send_job(request)
    \/ \E job_id \in UuidSpace : get_job_status(job_id)
    \/ health_check
    \/ \E request \in Requests : generate_model(request)
    \/ \E g \in DOMAIN gens : generate_post_returns(g)
    \/ \E g \in DOMAIN gens : generate_post_raises(g)
    \/ \E g \in DOMAIN gens : generate_model_116(g)
    \/ \E g \in DOMAIN gens : generate_model_119(g)
    \/ \E t \in DOMAIN tasks : process_job_214(t)
    \/ \E t \in DOMAIN tasks : process_job_215(t)
    \/ \E t \in DOMAIN tasks : process_job_216(t)
    \/ \E t \in DOMAIN tasks : process_job_219(t)
    \/ \E t \in DOMAIN tasks : process_job_222(t)
    \/ \E t \in DOMAIN tasks : process_job_223(t)
    \/ \E t \in DOMAIN tasks : process_job_225(t)
    \/ \E t \in DOMAIN tasks : client_post_returns(t)
    \/ \E t \in DOMAIN tasks : client_post_raises(t)
    \/ \E t \in DOMAIN tasks : process_job_116(t)
    \/ \E t \in DOMAIN tasks : process_job_119(t)
    \/ \E t \in DOMAIN tasks : process_job_238(t)
    \/ \E t \in DOMAIN tasks : process_job_239(t)
    \/ \E t \in DOMAIN tasks : process_job_241(t)
    \/ \E t \in DOMAIN tasks : process_job_244(t)
    \/ \E t \in DOMAIN tasks : process_job_245(t)
    \/ \E t \in DOMAIN tasks : process_job_246(t)
    \/ \E t \in DOMAIN tasks : process_job_247(t)
    \/ \E t \in DOMAIN tasks : process_job_248(t)
    \/ \E t \in DOMAIN tasks : process_job_253(t)
    \/ \E t \in DOMAIN tasks : process_job_258(t)
    \/ \E t \in DOMAIN tasks : process_job_259(t)
    \/ \E t \in DOMAIN tasks : process_job_260(t)
    \/ \E t \in DOMAIN tasks : process_job_261(t)

Spec == Init /\ [][Next]_vars

\* POST /send when uuid4 returns an identifier it has returned before.  The
\* source relies on uuid4 alone: line 188 stores under job_id without looking
\* whether the key exists, so the existing record is overwritten, a second
\* task is scheduled for the same identifier and the answer is the usual one.
send_job_collision(request) ==
    /\ loop = 0
    /\ Len(tasks) + Len(gens) < MaxRequests
    /\ \E job_id \in issued :
        /\ jobs' = DictStore(jobs, job_id, QueuedRecord(request))
        /\ tasks' = Append(tasks, ScheduledTask(job_id, request))
        /\ resp' = [op |-> "send", code |-> 200, body |-> SendBody(job_id)]
    /\ UNCHANGED << HUGGINGFACE_API_KEY, gens, loop, issued >>

NextUuidCollision ==
    \/ Next
    \/ \E request \in Requests : send_job_collision(request)

\* The program without the assumption that uuid4 never repeats.
SpecUuidCollision == Init /\ [][NextUuidCollision]_vars

\* Any step of the t-th background task: a statement of process_job, or the
\* end of its post on the worker thread.
process_job(t) ==
    /\ t \in DOMAIN tasks
    /\ \/ process_job_214(t) \/ process_job_215(t) \/ process_job_216(t)
       \/ process_job_219(t) \/ process_job_222(t) \/ process_job_223(t)
       \/ process_job_225(t)
       \/ client_post_returns(t) \/ client_post_raises(t)
       \/ process_job_116(t) \/ process_job_119(t)
       \/ process_job_238(t) \/ process_job_239(t) \/ process_job_241(t)
       \/ process_job_244(t) \/ process_job_245(t) \/ process_job_246(t)
       \/ process_job_247(t) \/ process_job_248(t)
       \/ process_job_253(t) \/ process_job_258(t) \/ process_job_259(t)
       \/ process_job_260(t) \/ process_job_261(t)

\* The program under its scheduling: the event loop runs every ready task
\* (its ready queue is first in, first out, and every segment of a coroutine
\* ends), and a post on a worker thread returns or raises.  A task waiting
\* for the loop is ready again and again but not all the time (another task
\* may hold the loop), hence strong fairness.  Requests are not forced.
FairSpec == Spec /\ \A t \in 1..MaxRequests : SF_vars(process_job(t))

\* ------------------------------------------------------------------ claims

Terminal(status) == status \in {"completed", "failed"}

\* The event loop is idle: no task is between two of its stores, so any
\* handler may run next and read the table.
AtRest == loop = 0

\* The task that /send scheduled for job_id.
TaskOf(job_id) == CHOOSE t \in DOMAIN tasks : tasks[t].job_id = job_id

StatusStep(old, new) ==
    \/ new = old
    \/ old = "queued" /\ new = "processing"
    \/ old = "processing" /\ Terminal(new)

\* C1: every record is created queued, and each step of the program (each
\* statement of process_job, on each of its paths) leaves a record's status
\* alone or moves it queued -> processing or processing -> completed/failed:
\* never queued -> terminal, never back to queued.
C1_StatusOrder ==
    [][\A id \in DOMAIN jobs' :
          IF id \in DOMAIN jobs
          THEN StatusStep(jobs[id].status, jobs'[id].status)
          ELSE jobs'[id].status = "queued"]_vars

\* C1 witness: one job went queued, processing, completed and another one
\* queued, processing, failed on an undecodable image.
C1_Witness ==
    \E a, b \in DOMAIN jobs :
        /\ jobs[a].status = "completed"
        /\ jobs[b].status = "failed"
        /\ jobs[b].request.image = ImageUndecodable
        /\ tasks[TaskOf(a)].pc = "done" /\ tasks[TaskOf(b)].pc = "done"

\* C2: a terminal status is never changed by any statement (a completed job
\* never becomes failed, a failed one never completed), and once the executor
\* has finished the update that made the job terminal (the event loop is at
\* rest) no step changes the record at all: status, progress, message,
\* model_base64 and error stay.
C2_TerminalAbsorbing ==
    [][\A id \in DOMAIN jobs :
          Terminal(jobs[id].status) =>
              /\ id \in DOMAIN jobs'
              /\ jobs'[id].status = jobs[id].status
              /\ AtRest => jobs'[id] = jobs[id]]_vars

\* C2 witness: a job is completed, its executor returned, and the server has
\* taken a further request since (another job exists and is being processed).
C2_Witness ==
    \E a, b \in DOMAIN jobs :
        /\ jobs[a].status = "completed" /\ tasks[TaskOf(a)].pc = "done"
        /\ jobs[b].status = "processing"

\* C3: in every state a record has model_base64 only if completed and error
\* only if failed (so a queued or processing record has neither, and no
\* record has both); and in every state at rest a completed record has
\* model_base64 and a failed record has error.
C3_ResultXorError ==
    \A id \in DOMAIN jobs :
        /\ jobs[id].model_base64 # None => jobs[id].status = "completed"
        /\ jobs[id].error # None => jobs[id].status = "failed"
        /\ AtRest /\ jobs[id].status = "completed" => jobs[id].model_base64 # None
        /\ AtRest /\ jobs[id].status = "failed" => jobs[id].error # None

\* C3 witness: a failed record with its error next to a completed record
\* with its result, at rest.
C3_Witness ==
    /\ AtRest
    /\ \E a, b \in DOMAIN jobs :
        /\ jobs[a].status = "completed" /\ jobs[a].model_base64 # None
        /\ jobs[b].status = "failed" /\ jobs[b].error # None

\* C4 (as claimed): at rest, a completed record has a non-empty
\* model_base64 and no error, and a failed record has a non-empty error and
\* no model_base64, whatever the backend returned or raised.
C4_NonEmptyOutcome ==
    \A id \in DOMAIN jobs :
        /\ AtRest /\ jobs[id].status = "completed" =>
              /\ jobs[id].model_base64 # None
              /\ Len(jobs[id].model_base64[1]) > 0
              /\ jobs[id].error = None
        /\ AtRest /\ jobs[id].status = "failed" =>
              /\ jobs[id].error # None
              /\ Len(jobs[id].error[1]) > 0
              /\ jobs[id].model_base64 = None

\* C5 (as claimed): no step lowers a record's progress, and progress stays
\* in 0..100.
C5_ProgressNeverDecreases ==
    [][\A id \in DOMAIN jobs :
          /\ jobs'[id].progress >= jobs[id].progress
          /\ jobs'[id].progress \in 0..100]_vars

\* C5 (amended): progress stays in 0..100 and no step lowers it, except line
\* 259 of the failure path, which resets it to 0 on a record already marked
\* failed.
C5_ProgressMonotoneUntilFailure ==
    [][\A id \in DOMAIN jobs :
          /\ jobs'[id].progress \in 0..100
          /\ \/ jobs'[id].progress >= jobs[id].progress
             \/ jobs'[id].status = "failed" /\ jobs'[id].progress = 0]_vars

\* C5 witness: a job failed after its backend call, so its progress went
\* 0, 10, 30 and back to 0.
C5_Witness ==
    \E id \in DOMAIN jobs :
        /\ jobs[id].status = "failed" /\ jobs[id].progress = 0
        /\ tasks[TaskOf(id)].post # None
        /\ tasks[TaskOf(id)].pc = "done"

\* C6: the status view of every record, in every state, carries
\* model_base64 only with status completed and error only with status
\* failed; so does every answer GET /status gives.
C6_ViewFields ==
    /\ \A id \in DOMAIN jobs :
        LET view == JobStatus(jobs[id]) IN
        /\ view.model_base64 # None => view.status = "completed"
        /\ view.error # None => view.status = "failed"
    /\ resp.op = "status" /\ resp.code = 200 =>
        /\ resp.body.model_base64 # None => resp.body.status = "completed"
        /\ resp.body.error # None => resp.body.status = "failed"

\* C6 witness: GET /status answered for a failed job, with its error.
C6_Witness ==
    /\ resp.op = "status" /\ resp.code = 200
    /\ resp.body.status = "failed" /\ resp.body.error # None

\* C7: GET /status for an identifier no /send issued answers 404, leaves
\* the table as it was and adds no record under that identifier.
C7_UnknownIsNotFound ==
    [][(resp'.op = "status" /\ resp'.job_id \notin issued) =>
          /\ resp'.code = 404
          /\ jobs' = jobs
          /\ resp'.job_id \notin DOMAIN jobs']_vars

\* C7 witness: 404 was answered for an unknown identifier while the table
\* holds a job.
C7_Witness ==
    /\ resp.op = "status" /\ resp.code = 404
    /\ resp.job_id \notin issued
    /\ DOMAIN jobs # {}

\* C8: the identifier a /send returns was returned by no earlier /send and
\* is no key of the table; the step adds exactly that key and leaves the
\* other records alone, so the table holds one record per /send and the
\* tasks have pairwise different identifiers.
C8_FreshIdentifier ==
    [][resp'.op = "send" =>
          LET uid == resp'.body.uid IN
          /\ uid \notin issued
          /\ uid \notin DOMAIN jobs
          /\ DOMAIN jobs' = DOMAIN jobs \cup {uid}
          /\ \A other \in DOMAIN jobs : jobs'[other] = jobs[other]
          /\ Cardinality(DOMAIN jobs') = Len(tasks')
          /\ \A t, u \in DOMAIN tasks' :
                tasks'[t].job_id = tasks'[u].job_id => t = u]_vars

\* C8 witness: a second /send was answered, with an identifier other than
\* the first job's.
C8_Witness ==
    /\ resp.op = "send"
    /\ Len(tasks) = 2
    /\ resp.body.uid = tasks[2].job_id
    /\ tasks[1].job_id # tasks[2].job_id

\* C9: when /send answers, it answers 200 {uid, status: "queued"}, the
\* record under uid is queued with progress 0, and the job's task is
\* scheduled but has not started: it has stored nothing and posted nothing.
C9_SendDoesNotWait ==
    resp.op = "send" =>
        LET uid == resp.body.uid IN
        /\ resp.code = 200 /\ resp.body.status = "queued"
        /\ uid \in DOMAIN jobs
        /\ jobs[uid].status = "queued" /\ jobs[uid].progress = 0
        /\ \E t \in DOMAIN tasks :
              /\ tasks[t].job_id = uid
              /\ tasks[t].pc = "scheduled"
              /\ tasks[t].post = None

\* C9 witness: /send answered while an earlier job's backend call is still
\* running.
C9_Witness ==
    /\ resp.op = "send"
    /\ \E t \in DOMAIN tasks : tasks[t].pc = "109"

\* C10: GET /status answers completed only when the job's task has run to
\* its end and its backend call returned, failed only when the task has run
\* to its end and its decode or its generator call raised; while the task has
\* not finished the answer is queued or processing.
C10_NoEarlyTerminal ==
    resp.op = "status" /\ resp.code = 200 =>
        LET task == tasks[TaskOf(resp.job_id)] IN
        /\ resp.body.status = "completed" =>
              task.pc = "done" /\ task.response # None
        /\ resp.body.status = "failed" =>
              task.pc = "done" /\ task.e # None
        /\ task.pc # "done" => resp.body.status \in {"queued", "processing"}

\* C10 witness: the backend call of a job has returned, its task has not
\* resumed yet, and GET /status answers processing.
C10_Witness ==
    /\ resp.op = "status" /\ resp.code = 200
    /\ tasks[TaskOf(resp.job_id)].pc = "116"
    /\ resp.body.status = "processing"

\* C11: however the executors of several jobs interleave with each other
\* and with status queries, there is one record per submitted job, a record's
\* model_base64 is at every moment the encoding of the output of its own
\* task's backend call, and a task whose backend call returned ends with its
\* record completed: no job's result shows under another job's identifier.
C11_ResultsMatchJobs ==
    /\ Cardinality(DOMAIN jobs) = Len(tasks)
    /\ \A t \in DOMAIN tasks :
        LET job == jobs[tasks[t].job_id] IN
        /\ job.model_base64 # None =>
              /\ tasks[t].response # None
              /\ job.model_base64 = Some(b64encode(tasks[t].response[1]))
        /\ tasks[t].pc = "done" /\ tasks[t].response # None =>
              /\ job.status = "completed"
              /\ job.model_base64 = Some(b64encode(tasks[t].response[1]))

\* C11 witness: the backend calls of two jobs returned different outputs
\* and both records are completed, with different results.
C11_Witness ==
    /\ Len(tasks) = 2
    /\ tasks[1].pc = "done" /\ tasks[2].pc = "done"
    /\ tasks[1].response # None /\ tasks[2].response # None
    /\ tasks[1].response # tasks[2].response
    /\ jobs[tasks[1].job_id].status = "completed"
    /\ jobs[tasks[2].job_id].status = "completed"
    /\ jobs[tasks[1].job_id].model_base64 # jobs[tasks[2].job_id].model_base64

\* C12: whenever a status query reports a job completed, decoding the
\* model_base64 of the response as the client does (base64.b64decode) succeeds
\* and gives exactly the bytes the backend call of that job returned.
C12_RoundTrip ==
    (resp.op = "status" /\ resp.code = 200 /\ resp.body.status = "completed") =>
        LET task == tasks[TaskOf(resp.job_id)] IN
        /\ resp.body.model_base64 # None
        /\ task.response # None
        /\ b64decode(resp.body.model_base64[1]).ok
        /\ b64decode(resp.body.model_base64[1]).bytes = task.response[1]

\* C12 witness: a status query reports completed for a job whose artifact
\* is not a whole number of 3-byte groups, so its encoding is padded.
C12_Witness ==
    /\ resp.op = "status" /\ resp.code = 200
    /\ resp.body.status = "completed"
    /\ Len(tasks[TaskOf(resp.job_id)].response[1]) % 3 # 0
    /\ resp.body.model_base64[1][Len(resp.body.model_base64[1])] = B64Pad

\* C13: every step of a /generate call (its start, the return or the failure
\* of its post, and its answer, artifact or error) leaves the job table as it
\* was.
C13_GenerateLeavesJobs ==
    [][(gens' # gens \/ resp'.op = "generate") => jobs' = jobs]_vars

\* C13 witness: a /generate call has just been answered while the table
\* holds the record of a job, still as /send created it.
C13_Witness ==
    /\ resp.op = "generate"
    /\ \A g \in DOMAIN gens : gens[g].pc = "done"
    /\ \E id \in DOMAIN jobs : jobs[id] = QueuedRecord(jobs[id].request)

\* C14: on /generate, a call whose image does not decode is answered at once
\* with 500 and the decoder's message, without a backend call; a call whose
\* backend post raised is answered with 500 and the wrapped message; a call
\* whose post returned is answered with 200 and exactly the bytes returned;
\* and a 200 answer is only ever given for a post that returned.
C14_GenerateOutcome ==
    [][/\ \A g \in DOMAIN gens' :
            IF g \notin DOMAIN gens
            THEN LET d == b64decode(gens'[g].request.image) IN
                 ~d.ok =>
                    /\ gens'[g].pc = "done" /\ gens'[g].post = None
                    /\ resp'.op = "generate" /\ resp'.code = 500
                    /\ resp'.body = [detail |-> d.error]
                    /\ d.error # ""
            ELSE /\ (gens[g].pc = "119" /\ gens'[g].pc # "119") =>
                    /\ gens'[g].pc = "done"
                    /\ resp'.op = "generate" /\ resp'.code = 500
                    /\ resp'.body =
                          [detail |-> "Error generating 3D model: " \o gens[g].e]
                 /\ (gens[g].pc = "116" /\ gens'[g].pc # "116") =>
                    /\ gens'[g].pc = "done"
                    /\ resp'.op = "generate" /\ resp'.code = 200
                    /\ resp'.body = [content |-> gens[g].response]
       /\ (resp'.op = "generate" /\ resp'.code = 200) =>
            \E g \in DOMAIN gens :
                /\ gens[g].pc = "116" /\ gens'[g].pc = "done"
                /\ resp'.body.content = gens[g].response
      ]_vars

\* C14 witness: two /generate calls posted to the backend and were answered,
\* the last one, whose post raised, with 500 and the backend's message.
C14_Witness ==
    /\ Len(gens) = 2
    /\ gens[1].pc = "done" /\ gens[2].pc = "done"
    /\ gens[1].post # None /\ gens[2].post # None
    /\ resp.op = "generate" /\ resp.code = 500
    /\ resp.body.detail = "Error generating 3D model: 503 Service Unavailable"

\* The executor of a job ended in its except branch and the record holds what
\* it stored: status failed and the error text built from the exception, which
\* a status query made now reports.
FailureRecorded(t) ==
    LET id == tasks[t].job_id IN
    /\ jobs[id].status = "failed"
    /\ jobs[id].error =
          Some("Error processing job " \o ToString(id) \o ": " \o tasks[t].e[1])
    /\ StatusResponse(id).code = 200
    /\ StatusResponse(id).body.status = "failed"
    /\ StatusResponse(id).body.error = jobs[id].error
    /\ StatusResponse(id).body.model_base64 = None

\* C15: every /send is answered 200 with the identifier of the record it
\* created and status queued, whatever will happen to the job (undecodable
\* image, missing credential, backend failure); no step of an executor
\* answers anything or alters an answer; and when an executor has ended with a
\* failure, the record and the status query report failed with the error.
C15_FailureOnlyInRecord ==
    [][/\ resp'.op = "send" =>
            /\ resp'.code = 200
            /\ resp'.body.status = "queued"
            /\ Len(tasks') = Len(tasks) + 1
            /\ resp'.body.uid = tasks'[Len(tasks')].job_id
            /\ resp'.body.uid \in DOMAIN jobs'
       /\ Len(tasks') > Len(tasks) => resp'.op = "send"
       /\ (Len(tasks') = Len(tasks) /\ tasks' # tasks) => resp' = NoResponse
       /\ \A t \in DOMAIN tasks' :
            (tasks'[t].pc = "done" /\ tasks'[t].e # None) => FailureRecorded(t)'
      ]_vars

\* C15 witness: a job whose image does not decode was accepted, its executor
\* has failed, and a status query has just reported failed with the error.
C15_Witness ==
    /\ resp.op = "status" /\ resp.code = 200
    /\ resp.body.status = "failed"
    /\ resp.body.error # None
    /\ LET task == tasks[TaskOf(resp.job_id)] IN
        /\ task.pc = "done"
        /\ ~b64decode(task.request.image).ok
        /\ resp.body.error =
              Some("Error processing job " \o ToString(resp.job_id) \o ": "
                   \o b64decode(task.request.image).error)

\* C16: under the fair scheduling of FairSpec, every job in the table
\* eventually has status completed or failed.
C16_EventuallyTerminal ==
    \A id \in UuidSpace :
        (id \in DOMAIN jobs) ~> (id \in DOMAIN jobs /\ Terminal(jobs[id].status))

\* C16 witness: two jobs were accepted and both executors have ended, one
\* after its post returned and one in the except branch; both are terminal.
C16_Witness ==
    /\ Len(tasks) = 2
    /\ tasks[1].pc = "done" /\ tasks[2].pc = "done"
    /\ tasks[1].e # None /\ tasks[2].response # None
    /\ jobs[tasks[1].job_id].status = "failed"
    /\ jobs[tasks[2].job_id].status = "completed"

\* os.environ.get gave no credential at start: the variable was not set, or
\* was set to the empty text (`not self.api_key` holds for both).
CredentialAbsent == HUGGINGFACE_API_KEY = None \/ HUGGINGFACE_API_KEY = Some("")

\* No call has reached the backend: no task and no /generate call has
\* posted, is waiting for a post or holds the outcome of one.
BackendNeverCalled ==
    /\ \A t \in DOMAIN tasks :
        /\ tasks[t].post = None /\ tasks[t].response = None
        /\ tasks[t].pc \notin {"109", "116", "119"}
    /\ \A g \in DOMAIN gens : gens[g].post = None /\ gens[g].pc = "done"

\* C17: without a credential, (1) no call reaches the backend, no job is
\* completed, every executor that has ended left its job failed with an
\* error, and every answer of /generate is an error; (2) /send, /status and
\* /health answer as they always do; (3) under fair scheduling every accepted
\* job eventually is failed with an error.
C17_NoCredentialFailsFast ==
    /\ [](CredentialAbsent =>
            /\ BackendNeverCalled
            /\ \A id \in DOMAIN jobs :
                 jobs[id].status # "completed" /\ jobs[id].model_base64 = None
            /\ \A t \in DOMAIN tasks : tasks[t].pc = "done" =>
                 /\ jobs[tasks[t].job_id].status = "failed"
                 /\ jobs[tasks[t].job_id].error # None
            /\ resp.op = "generate" => resp.code = 500
            /\ resp.op = "send" =>
                 resp.code = 200 /\ resp.body.uid \in DOMAIN jobs
            /\ resp.op = "status" =>
                 resp.code = IF resp.job_id \in DOMAIN jobs THEN 200 ELSE 404
            /\ resp.op = "health" =>
                 resp.code = 200 /\ resp.body.status = "ok")
    /\ \A id \in UuidSpace :
        (CredentialAbsent /\ id \in DOMAIN jobs) ~>
            (/\ id \in DOMAIN jobs
             /\ jobs[id].status = "failed" /\ jobs[id].error # None)

\* C17 witness: no credential was set, a job with a decodable image was
\* accepted, and a status query has just reported it failed with the error of
\* the credential test.
C17_Witness ==
    /\ HUGGINGFACE_API_KEY = None
    /\ resp.op = "status" /\ resp.code = 200
    /\ resp.body.status = "failed"
    /\ b64decode(jobs[resp.job_id].request.image).ok
    /\ resp.body.error =
          Some("Error processing job " \o ToString(resp.job_id)
               \o ": HUGGINGFACE_API_KEY is not set")

\* C18: the credential never changes after start; /health can be answered
\* whenever the event loop is free; and each answer is 200 with status "ok"
\* and api_key_configured true exactly when a non-empty credential was read at
\* start (the credential the generation calls accept), while the job table,
\* the tasks and the /generate calls, hence the posts to the backend, stay as
\* they were.
C18_HealthProbe ==
    /\ [](AtRest => ENABLED health_check)
    /\ [][/\ HUGGINGFACE_API_KEY' = HUGGINGFACE_API_KEY
          /\ resp'.op = "health" =>
                /\ resp'.code = 200
                /\ resp'.body =
                      [status |-> "ok",
                       api_key_configured |->
                          (/\ HUGGINGFACE_API_KEY # None
                           /\ HUGGINGFACE_API_KEY # Some(""))]
                /\ jobs' = jobs /\ tasks' = tasks /\ gens' = gens
         ]_vars

\* C18 witness: /health has just answered that the credential is configured
\* while the post of a job is under way and another record is in the table.
C18_Witness ==
    /\ resp.op = "health" /\ resp.code = 200
    /\ resp.body.api_key_configured
    /\ \E t \in DOMAIN tasks : tasks[t].pc = "109"
    /\ Cardinality(DOMAIN jobs) = 2

\* C19: a /send either creates a record under an identifier that was not in
\* the table and leaves every existing record as it was, or (the identifier
\* exists: DuplicateJob) fails and leaves the table as it was.
C19_DuplicateRefused ==
    [][resp'.op = "send" =>
          \/ /\ resp'.code # 200
             /\ jobs' = jobs
          \/ /\ resp'.code = 200
             /\ resp'.body.uid \notin DOMAIN jobs
             /\ DOMAIN jobs' = DOMAIN jobs \cup {resp'.body.uid}
             /\ \A id \in DOMAIN jobs : jobs'[id] = jobs[id]
      ]_vars

\* C20 (uuid4 taken at its contract, as in C8): every identifier /send has
\* returned is a key of the table, and a status query for it is answered 200
\* with the view of its record; no step removes a key; the record under a key
\* stays the record of the same job (same request, same creation time); and
\* only a step of the executor scheduled for that identifier changes it.
C20_IssuedResolves ==
    /\ [](/\ issued = DOMAIN jobs
          /\ (resp.op = "send" /\ resp.code = 200) => resp.body.uid \in DOMAIN jobs
          /\ (resp.op = "status" /\ resp.job_id \in issued) =>
                /\ resp.code = 200
                /\ resp.body = JobStatus(jobs[resp.job_id]))
    /\ [][\A id \in DOMAIN jobs :
            /\ id \in DOMAIN jobs'
            /\ jobs'[id].request = jobs[id].request
            /\ jobs'[id].created_at = jobs[id].created_at
            /\ jobs'[id] # jobs[id] =>
                  \E t \in DOMAIN tasks :
                      tasks[t].job_id = id /\ (loop = t \/ loop' = t)
         ]_vars

\* C20 witness: two jobs with different requests were accepted and have
\* ended, and a status query for the first identifier has just been answered
\* 200 from the record that still holds the first request.
C20_Witness ==
    /\ Len(tasks) = 2
    /\ tasks[1].pc = "done" /\ tasks[2].pc = "done"
    /\ tasks[1].request # tasks[2].request
    /\ resp.op = "status" /\ resp.code = 200
    /\ resp.job_id = tasks[1].job_id
    /\ jobs[resp.job_id].request = tasks[1].request

\* The record of request as the except branch leaves it (lines 258-261).
FailedRecord(request, error) ==
    [QueuedRecord(request) EXCEPT !.status = "failed", !.progress = 0,
                                  !.message = "Model generation failed",
                                  !.error = Some(error)]

\* C21: when the post of a job raised, whatever the text of the exception,
\* the task resumes with that text wrapped ("Error generating 3D model: " and
\* the text), and once the executor has ended the record is the queued
\* record with status failed, progress 0, message "Model generation failed"
\* and error = "Error processing job <id>: " and the wrapped text; nothing
\* else is set (no completed_at, no model_base64).
C21_GeneratorFailureRecord ==
    /\ [][\A t \in DOMAIN tasks :
            (tasks[t].pc = "119" /\ tasks'[t].pc # "119") =>
                /\ tasks[t].e[1] \in GeneratorFailures
                /\ tasks'[t].e =
                      Some("Error generating 3D model: " \o tasks[t].e[1])
                /\ tasks'[t].pc = "253"
         ]_vars
    /\ [](\A t \in DOMAIN tasks :
            (tasks[t].pc = "done" /\ tasks[t].post # None /\ tasks[t].e # None) =>
                /\ \E cause \in GeneratorFailures :
                      tasks[t].e = Some("Error generating 3D model: " \o cause)
                /\ jobs[tasks[t].job_id] =
                      FailedRecord(tasks[t].request,
                                   "Error processing job "
                                   \o ToString(tasks[t].job_id) \o ": "
                                   \o tasks[t].e[1]))

\* C21 witness: the posts of two jobs raised with different texts and both
\* executors have ended.
C21_Witness ==
    /\ Len(tasks) = 2
    /\ tasks[1].pc = "done" /\ tasks[2].pc = "done"
    /\ tasks[1].post # None /\ tasks[2].post # None
    /\ tasks[1].e # None /\ tasks[2].e # None
    /\ tasks[1].e # tasks[2].e
    /\ jobs[tasks[1].job_id].status = "failed"
    /\ jobs[tasks[2].job_id].status = "failed"

\* C22: each job has one executor; an executor posts to the backend only
\* from line 225, only if it has not posted before and has caught no
\* exception, and what it posted stays; after an exception it never
\* approaches the call again; a failed record stays failed; and each /send
\* stores its record under an identifier that was not in the table.
C22_NoRetry ==
    /\ [](\A t, u \in DOMAIN tasks : tasks[t].job_id = tasks[u].job_id => t = u)
    /\ [][/\ \A t \in DOMAIN tasks :
               /\ tasks[t].post # None => tasks'[t].post = tasks[t].post
               /\ (tasks'[t].pc = "109" /\ tasks[t].pc # "109") =>
                     /\ tasks[t].pc = "225"
                     /\ tasks[t].post = None /\ tasks[t].e = None
               /\ tasks[t].e # None =>
                     /\ tasks'[t].e # None
                     /\ tasks'[t].pc \notin {"225", "109", "116"}
               /\ jobs[tasks[t].job_id].status = "failed" =>
                     jobs'[tasks[t].job_id].status = "failed"
          /\ Len(tasks') > Len(tasks) =>
                /\ tasks'[Len(tasks')].job_id \notin DOMAIN jobs
                /\ tasks'[Len(tasks')].post = None
         ]_vars

\* C22 witness: the post of the first job raised and its executor ended with
\* the job failed; the same request was sent again, got another identifier,
\* and the executor of the new job has posted.
C22_Witness ==
    /\ Len(tasks) = 2
    /\ tasks[1].pc = "done" /\ tasks[1].post # None /\ tasks[1].e # None
    /\ jobs[tasks[1].job_id].status = "failed"
    /\ tasks[2].request = tasks[1].request
    /\ tasks[2].job_id # tasks[1].job_id
    /\ tasks[2].pc = "109" /\ tasks[2].post = tasks[1].post

\* C23: for a job whose image base64.b64decode rejects, in every state: the
\* executor is before the decoding, in the except branch or ended; it has
\* not posted to the backend and holds no outcome of a post; the progress of
\* the record is 0 or 10; and once the executor has ended the record is
\* failed with the error text built from the decoder's (non-empty) message.
C23_UndecodableImage ==
    \A t \in DOMAIN tasks :
        LET d == b64decode(tasks[t].request.image)
            job == jobs[tasks[t].job_id]
        IN  ~d.ok =>
            /\ tasks[t].pc \in {"scheduled", "215", "216", "219",
                                 "253", "258", "259", "260", "261", "done"}
            /\ tasks[t].image_data = None
            /\ tasks[t].post = None /\ tasks[t].response = None
            /\ job.progress \in {0, 10}
            /\ job.status # "completed"
            /\ tasks[t].pc = "done" =>
                  /\ d.error # ""
                  /\ job.status = "failed" /\ job.progress = 0
                  /\ job.error =
                        Some("Error processing job " \o ToString(tasks[t].job_id)
                             \o ": " \o d.error)

\* C23 witness: a credential is configured, so the backend could be called,
\* and the executor of a job with an undecodable image has ended, the job
\* failed.
C23_Witness ==
    /\ HUGGINGFACE_API_KEY = Some("hf_token")
    /\ \E t \in DOMAIN tasks :
        /\ ~b64decode(tasks[t].request.image).ok
        /\ tasks[t].pc = "done"
        /\ jobs[tasks[t].job_id].status = "failed"
        /\ jobs[tasks[t].job_id].error # None

\* A status query for job_id can run now and reports this progress.
Observable(job_id, progress) ==
    /\ ENABLED get_job_status(job_id)
    /\ StatusResponse(job_id).code = 200
    /\ StatusResponse(job_id).body.progress = progress

\* C24: between the update of one step and the update of the next a status
\* query can run and see the earlier update.  The points of process_job
\* between the update of lines 214-216 and that of lines 222-223 are the two
\* around line 219; between 222-223 and 238-239, those around the call of
\* line 225; between 238-239 and 244-248, the two around line 241.  At one
\* point of each group the query can run and reports 10, 30 and 80.
C24_StepsVisible ==
    [][\A t \in DOMAIN tasks :
          LET id == tasks[t].job_id IN
          /\ (tasks[t].pc = "219" /\ tasks'[t].pc = "222") =>
                (Observable(id, 10) \/ Observable(id, 10)')
          /\ (tasks[t].pc = "225" /\ tasks'[t].pc = "109") =>
                (Observable(id, 30) \/ Observable(id, 30)')
          /\ (tasks[t].pc = "241" /\ tasks'[t].pc = "244") =>
                (Observable(id, 80) \/ Observable(id, 80)')
      ]_vars

\* A status view that shows no partially applied step.
WholeView(view) ==
    /\ view.status = "queued" =>
          /\ view.progress = 0 /\ view.message = "Job queued for processing"
          /\ view.model_base64 = None /\ view.error = None
    /\ view.status = "processing" =>
          /\ view.progress # 0 /\ view.message # "Job queued for processing"
          /\ view.model_base64 = None /\ view.error = None
    /\ view.status = "completed" =>
          /\ view.model_base64 # None /\ view.progress = 100
          /\ view.message = "Model generation completed"
    /\ view.status = "failed" =>
          /\ view.error # None /\ view.progress = 0
          /\ view.message = "Model generation failed"

\* C25: whenever a status query for a job can run, the view it would return
\* is whole, and the record behind it has model_base64 only if its status is
\* completed; and every 200 answer a status query has given is whole.
C25_NoPartialStep ==
    /\ \A id \in DOMAIN jobs :
          ENABLED get_job_status(id) =>
              /\ WholeView(StatusResponse(id).body)
              /\ jobs[id].model_base64 # None => jobs[id].status = "completed"
              /\ jobs[id].completed_at # None => jobs[id].status = "completed"
    /\ (resp.op = "status" /\ resp.code = 200) => WholeView(resp.body)

\* C25 witness: a status query has just reported a job processing at 30
\* while the record of another job, already completed, is in the table.
C25_Witness ==
    /\ resp.op = "status" /\ resp.code = 200
    /\ resp.body.status = "processing" /\ resp.body.progress = 30
    /\ \E id \in DOMAIN jobs : jobs[id].status = "completed"

\* The positions of process_job in program order; the two ways the await of
\* line 109 ends share a place, and the except branch comes last.
ProgramOrder ==
    << {"scheduled"}, {"215"}, {"216"}, {"219"}, {"222"}, {"223"}, {"225"},
       {"109"}, {"116", "119"}, {"238"}, {"239"}, {"241"}, {"244"}, {"245"},
       {"246"}, {"247"}, {"248"}, {"253"}, {"258"}, {"259"}, {"260"}, {"261"},
       {"done"} >>

Place(pc) == CHOOSE i \in DOMAIN ProgramOrder : pc \in ProgramOrder[i]

\* C26: a step that changes a record is a step of the one executor scheduled
\* for that record's identifier, it changes no other record and no other
\* task, and every executor only moves forward in program order; the steps
\* of /status, /health and /generate change no record, and a /send adds a
\* record and changes none.
C26_OnlyOwnExecutor ==
    [][/\ \A id \in DOMAIN jobs :
            (id \in DOMAIN jobs' /\ jobs'[id] # jobs[id]) =>
                \E t \in DOMAIN tasks :
                    /\ tasks[t].job_id = id
                    /\ tasks'[t].pc # tasks[t].pc
                    /\ loop = t \/ loop' = t
                    /\ \A u \in DOMAIN tasks \ {t} : tasks'[u] = tasks[u]
                    /\ \A other \in DOMAIN jobs \ {id} : jobs'[other] = jobs[other]
                    /\ gens' = gens /\ resp' = NoResponse
       /\ \A t \in DOMAIN tasks :
            /\ tasks'[t].job_id = tasks[t].job_id
            /\ tasks'[t].pc # tasks[t].pc => Place(tasks'[t].pc) > Place(tasks[t].pc)
       /\ (resp'.op \in {"status", "health", "generate"} \/ gens' # gens) =>
            jobs' = jobs
       /\ Len(tasks') > Len(tasks) =>
            \A id \in DOMAIN jobs : id \in DOMAIN jobs' /\ jobs'[id] = jobs[id]
      ]_vars

\* C26 witness: the executors of two jobs interleaved: the second has
\* ended, its job completed, while the first still waits for its post and
\* its record holds exactly what its own executor stored up to line 223.
C26_Witness ==
    /\ Len(tasks) = 2
    /\ tasks[1].pc = "109"
    /\ tasks[2].pc = "done" /\ jobs[tasks[2].job_id].status = "completed"
    /\ jobs[tasks[1].job_id] =
          [QueuedRecord(tasks[1].request) EXCEPT
              !.status = "processing", !.progress = 30,
              !.message = "Calling Hunyuan3D API"]

\* The record of request as lines 238-248 leave it for the artifact.
CompletedRecord(request, artifact) ==
    [QueuedRecord(request) EXCEPT !.status = "completed", !.progress = 100,
                                  !.message = "Model generation completed",
                                  !.model_base64 = Some(b64encode(artifact)),
                                  !.completed_at = Some(time_time)]

\* C27: after its post returned, the executor stores progress 80 and the
\* message "Processing model data" before it stores the status completed;
\* once it has ended, the record is the queued record with status completed,
\* progress 100, message "Model generation completed", the encoded artifact
\* and completed_at.  In every state a record with completed_at is completed,
\* and in every state at rest (no executor inside an update) a completed
\* record has completed_at.
C27_SuccessUpdate ==
    /\ [][\A t \in DOMAIN tasks :
            LET id == tasks[t].job_id IN
            /\ (tasks[t].pc = "116" /\ tasks'[t].pc # "116") => tasks'[t].pc = "238"
            /\ (tasks[t].pc = "238" /\ tasks'[t].pc # "238") => jobs'[id].progress = 80
            /\ (tasks[t].pc = "239" /\ tasks'[t].pc # "239") =>
                  jobs'[id].message = "Processing model data"
            /\ (jobs[id].status # "completed" /\ jobs'[id].status = "completed") =>
                  /\ jobs[id].progress = 80
                  /\ jobs[id].message = "Processing model data"
                  /\ tasks[t].model_base64 = Some(b64encode(tasks[t].response[1]))
         ]_vars
    /\ [](/\ \A t \in DOMAIN tasks :
               (tasks[t].pc = "done" /\ tasks[t].response # None) =>
                   jobs[tasks[t].job_id] =
                       CompletedRecord(tasks[t].request, tasks[t].response[1])
          /\ \A id \in DOMAIN jobs :
               /\ jobs[id].completed_at # None => jobs[id].status = "completed"
               /\ (AtRest /\ jobs[id].status = "completed") =>
                     jobs[id].completed_at # None)

\* C27 witness: at rest, one job is completed with its artifact and its
\* completion time and another is failed without a completion time.
C27_Witness ==
    /\ AtRest
    /\ \E a, b \in DOMAIN jobs :
        /\ jobs[a].status = "completed" /\ jobs[a].completed_at # None
        /\ jobs[a].model_base64 # None /\ jobs[a].model_base64 # Some(<< >>)
        /\ jobs[b].status = "failed" /\ jobs[b].completed_at = None

\* Some executor has ended in its except branch.
SomeJobFailed == \E t \in DOMAIN tasks : tasks[t].pc = "done" /\ tasks[t].e # None

\* C28: (1) every step of an executor that has caught an exception changes
\* only its own task and its own record, and an executor that holds an
\* exception ends only with its job failed; (2) after an executor has
\* failed, whenever the event loop is free the server answers /status and
\* /health, accepts /send and /generate (while the requests the model follows
\* are not used up), and every other executor that is ready can go on; (3) an
\* executor whose post returned ends with its job completed, whatever
\* happened to the others.
C28_FailureIsolated ==
    /\ [][\A t \in DOMAIN tasks :
            /\ (tasks[t].e # None /\ tasks'[t] # tasks[t]) =>
                  /\ \A u \in DOMAIN tasks \ {t} : tasks'[u] = tasks[u]
                  /\ \A id \in DOMAIN jobs \ {tasks[t].job_id} :
                        id \in DOMAIN jobs' /\ jobs'[id] = jobs[id]
                  /\ gens' = gens
                  /\ tasks'[t].pc \in {"253", "258", "259", "260", "261", "done"}
            /\ (tasks'[t].e # None /\ tasks'[t].pc = "done") =>
                  jobs'[tasks[t].job_id].status = "failed"
         ]_vars
    /\ []((SomeJobFailed /\ AtRest) =>
            /\ \A id \in UuidSpace : ENABLED get_job_status(id)
            /\ ENABLED health_check
            /\ Len(tasks) + Len(gens) < MaxRequests =>
                  \A request \in Requests :
                      ENABLED send_job(request) /\ ENABLED generate_model(request)
            /\ \A u \in DOMAIN tasks :
                  tasks[u].pc # "done" => ENABLED process_job(u))
    /\ [](\A u \in DOMAIN tasks :
            (tasks[u].pc = "done" /\ tasks[u].response # None) =>
                jobs[tasks[u].job_id].status = "completed")

\* C28 witness: the first job failed; after that the second was sent, ran
\* and completed, and a status query has just reported it completed.
C28_Witness ==
    /\ Len(tasks) = 2
    /\ tasks[1].pc = "done" /\ tasks[1].e # None
    /\ jobs[tasks[1].job_id].status = "failed"
    /\ tasks[2].pc = "done" /\ tasks[2].response # None
    /\ resp.op = "status" /\ resp.code = 200
    /\ resp.job_id = tasks[2].job_id
    /\ resp.body.status = "completed"

\* The generation parameters of a request (GenerateRequest without image).
ParameterFields ==
    { "caption", "seed", "octree_resolution", "num_inference_steps",
      "guidance_scale", "mc_algo", "texture", "type" }

\* request with one parameter changed, to the value the other sample request
\* has for it (DefaultRequest and CustomRequest differ in every parameter).
Vary(request, field) ==
    LET default == DefaultRequest(request.image) IN
    [request EXCEPT ![field] = IF request[field] = default[field]
                               THEN CustomRequest[field]
                               ELSE default[field]]

\* What was posted for request carries every parameter of it: the values it
\* names are those of the request, and a request that differs in one
\* parameter gives another post.
CarriesParameters(post, image_data, request) ==
    /\ post.image_data = image_data
    /\ post.parameters.caption = request.caption
    /\ post.parameters.seed = request.seed
    /\ post.parameters.octree_resolution = request.octree_resolution
    /\ post.parameters.steps = request.num_inference_steps
    /\ post.parameters.guidance_scale = request.guidance_scale
    /\ post.output_type = request.type
    /\ \A field \in ParameterFields :
          CallOf(image_data, Vary(request, field)) # post

\* C29: every post to the backend, from an executor or from /generate,
\* carries every parameter of its request, and a /generate call and a job
\* with the same request post the same.
C29_ParametersPassedThrough ==
    /\ \A t \in DOMAIN tasks :
          tasks[t].post # None =>
              CarriesParameters(tasks[t].post[1], tasks[t].image_data[1],
                                tasks[t].request)
    /\ \A g \in DOMAIN gens :
          gens[g].post # None =>
              CarriesParameters(gens[g].post[1],
                                b64decode(gens[g].request.image).bytes,
                                gens[g].request)
    /\ \A t \in DOMAIN tasks : \A g \in DOMAIN gens :
          (tasks[t].post # None /\ gens[g].post # None
           /\ tasks[t].request = gens[g].request) =>
              tasks[t].post = gens[g].post

\* progress and message agree with status.
Agrees(status, progress, message) ==
    /\ status \in {"queued", "processing", "completed", "failed"}
    /\ status = "queued" =>
          progress = 0 /\ message = "Job queued for processing"
    /\ status = "processing" => progress \in {10, 30, 80}
    /\ status = "completed" =>
          progress = 100 /\ message = "Model generation completed"
    /\ status = "failed" =>
          progress = 0 /\ message = "Model generation failed"
    /\ progress = 100 => status = "completed"
    /\ progress = 0 => status \in {"queued", "failed"}

\* C30: in every state at rest (no executor inside an update) each record's
\* progress and message agree with its status, and so does every view a
\* status query has returned; and in every state whatsoever a record with
\* progress 100 is completed.
C30_ProgressAgreesWithStatus ==
    /\ AtRest =>
          \A id \in DOMAIN jobs :
              Agrees(jobs[id].status, jobs[id].progress, jobs[id].message)
    /\ (resp.op = "status" /\ resp.code = 200) =>
          Agrees(resp.body.status, resp.body.progress, resp.body.message)
    /\ \A id \in DOMAIN jobs :
          jobs[id].progress = 100 => jobs[id].status = "completed"

\* C30 witness: at rest, one job is still queued at 0 and another is
\* processing at 30, and a status query has just reported the queued one.
C30_Witness ==
    /\ AtRest
    /\ resp.op = "status" /\ resp.code = 200
    /\ resp.body.status = "queued" /\ resp.body.progress = 0
    /\ \E id \in DOMAIN jobs :
        jobs[id].status = "processing" /\ jobs[id].progress = 30
====
